---- MODULE Spec2Model ----
(***************************************************************************)
(* Fetch-a-Donut chat agent (app.py, config.py).                           *)
(*                                                                         *)
(* The agent keeps one record per chat session in ctx.storage and answers  *)
(* every ChatMessage through handle_message.  The agent is built with      *)
(* handle_messages_concurrently=True, so every inbound message gets its    *)
(* own coroutine; coroutines of one event loop interleave only at their    *)
(* await points (the ctx.send calls).  A step of the model is therefore    *)
(* the code between two awaits.                                            *)
(*                                                                         *)
(* Python values:                                                          *)
(*   str   - a sequence of one-character strings (so len, strip, slicing   *)
(*           and upper are computed), except for fixed message texts that  *)
(*           are never taken apart, which stay TLA+ strings;               *)
(*   bytes - a sequence of numbers 0..255;                                 *)
(*   dict  - a function from its keys (a TLA+ record);                     *)
(*   None  - the empty function << >> (falsy, like the empty dict).        *)
(***************************************************************************)
EXTENDS Integers, Sequences, FiniteSets, TLC

(***************************************************************************)
(* Bounds of the model.                                                    *)
(***************************************************************************)
\* inbound chat messages delivered to the agent in one run
MaxMsgs == 4
\* calls of _generate_coupon in one run of SpecCoupon
MaxCalls == 2

(***************************************************************************)
(* config.py                                                               *)
(***************************************************************************)
COUPON_PREFIX == << "D", "O", "N", "U", "T" >>
CONFERENCE_ID == << "T", "R", "E", "E", "H", "A", "C", "K", "S", "1", "2" >>
CONFERENCE_NAME == "TreeHacks 12"
CONFERENCE_START_DATE == "2026-02-13"
CONFERENCE_END_DATE == "2026-02-15"
MIN_STORY_LENGTH == 20

(***************************************************************************)
(* str helpers                                                             *)
(***************************************************************************)
\* c repeated n times
Rep(c, n) == [i \in 1..n |-> c]

\* the characters str.strip() removes
Whitespace == { " ", "\t", "\n", "\r" }

RECURSIVE lstrip(_)
lstrip(s) ==
  IF Len(s) > 0 /\ s[1] \in Whitespace THEN lstrip(Tail(s)) ELSE s

RECURSIVE rstrip(_)
rstrip(s) ==
  IF Len(s) > 0 /\ s[Len(s)] \in Whitespace
  THEN rstrip(SubSeq(s, 1, Len(s) - 1))
  ELSE s

\* str.strip()
strip(s) == rstrip(lstrip(s))

\* str.upper() on the characters a hex digest holds
UpperChar(c) ==
  CASE c = "a" -> "A" [] c = "b" -> "B" [] c = "c" -> "C"
    [] c = "d" -> "D" [] c = "e" -> "E" [] c = "f" -> "F"
    [] OTHER -> c

upper(s) == [i \in 1..Len(s) |-> UpperChar(s[i])]

\* dict.get(key, default)
Get(d, key, default) == IF key \in DOMAIN d THEN d[key] ELSE default

(***************************************************************************)
(* hashlib.sha256: SHA-256 of FIPS 180-4 on byte sequences.  A 32-bit word  *)
(* is the pair << high 16 bits, low 16 bits >>, since the model checker's  *)
(* integers are 32-bit signed.                                             *)
(***************************************************************************)
RECURSIVE Xor16(_, _)
Xor16(a, b) ==
  IF a = 0 THEN b
  ELSE IF b = 0 THEN a
  ELSE (((a % 2) + (b % 2)) % 2) + 2 * Xor16(a \div 2, b \div 2)

RECURSIVE And16(_, _)
And16(a, b) ==
  IF a = 0 \/ b = 0 THEN 0
  ELSE ((a % 2) * (b % 2)) + 2 * And16(a \div 2, b \div 2)

Xor(u, v) == << Xor16(u[1], v[1]), Xor16(u[2], v[2]) >>
And(u, v) == << And16(u[1], v[1]), And16(u[2], v[2]) >>
Not(u) == << 65535 - u[1], 65535 - u[2] >>
Add(u, v) ==
  LET lo == u[2] + v[2]
  IN  << (u[1] + v[1] + (lo \div 65536)) % 65536, lo % 65536 >>

Rotr(u, n) ==
  LET s == IF n >= 16 THEN << u[2], u[1] >> ELSE u
      k == n % 16
      p == 2 ^ k
      q == 2 ^ (16 - k)
  IN  << (s[1] \div p) + ((s[2] % p) * q), (s[2] \div p) + ((s[1] % p) * q) >>

Shr(u, n) ==
  LET p == 2 ^ n
      q == 2 ^ (16 - n)
  IN  << u[1] \div p, (u[2] \div p) + ((u[1] % p) * q) >>

K ==
  << <<17034, 12184>>, <<28983, 17553>>, <<46528, 64463>>, <<59829, 56229>>,
     <<14678, 49755>>, <<23025, 4593>>, <<37439, 33444>>, <<43804, 24277>>,
     <<55303, 43672>>, <<4739, 23297>>, <<9265, 34238>>, <<21772, 32195>>,
     <<29374, 23924>>, <<32990, 45566>>, <<39900, 1703>>, <<49563, 61812>>,
     <<58523, 27073>>, <<61374, 18310>>, <<4033, 40390>>, <<9228, 41420>>,
     <<11753, 11375>>, <<19060, 33962>>, <<23728, 43484>>, <<30457, 35034>>,
     <<38974, 20818>>, <<43057, 50797>>, <<45059, 10184>>, <<48985, 32711>>,
     <<50912, 3059>>, <<54695, 37191>>, <<1738, 25425>>, <<5161, 10599>>,
     <<10167, 2693>>, <<11803, 8504>>, <<19756, 28156>>, <<21304, 3347>>,
     <<25866, 29524>>, <<30314, 2747>>, <<33218, 51502>>, <<37490, 11397>>,
     <<41663, 59553>>, <<43034, 26187>>, <<49739, 35696>>, <<51052, 20899>>,
     <<53650, 59417>>, <<54937, 1572>>, <<62478, 13701>>, <<4202, 41072>>,
     <<6564, 49430>>, <<7735, 27656>>, <<10056, 30540>>, <<13488, 48309>>,
     <<14620, 3251>>, <<20184, 43594>>, <<23452, 51791>>, <<26670, 28659>>,
     <<29839, 33518>>, <<30885, 25455>>, <<33992, 30740>>, <<36039, 520>>,
     <<37054, 65530>>, <<42064, 27883>>, <<48889, 41975>>, <<50801, 30962>> >>
H0 ==
  << <<27145, 58983>>, <<47975, 44677>>, <<15470, 62322>>, <<42319, 62778>>,
     <<20750, 21119>>, <<39685, 26764>>, <<8067, 55723>>, <<23520, 52505>> >>

(* FIPS 180-4 padding: the message bytes, 0x80, zeros up to 56 mod 64, then the
   bit length as a 64-bit big-endian integer (messages here are far below 2^32 bits). *)
RECURSIVE Zeros(_)
Zeros(n) == IF n = 0 THEN << >> ELSE << 0 >> \o Zeros(n - 1)

Pad(bytes) ==
  LET n == Len(bytes)
      z == (119 - n) % 64
      bits == 8 * n
  IN  bytes \o << 128 >> \o Zeros(z) \o Zeros(4)
        \o << (bits \div 16777216) % 256, (bits \div 65536) % 256,
              (bits \div 256) % 256, bits % 256 >>

RECURSIVE Schedule(_)
Schedule(w) ==
  IF Len(w) = 64 THEN w
  ELSE LET t == Len(w) + 1
           a == w[t - 15]
           b == w[t - 2]
           s0 == Xor(Xor(Rotr(a, 7), Rotr(a, 18)), Shr(a, 3))
           s1 == Xor(Xor(Rotr(b, 17), Rotr(b, 19)), Shr(b, 10))
       IN  Schedule(Append(w, Add(Add(w[t - 16], s0), Add(w[t - 7], s1))))

RECURSIVE Rounds(_, _)
Rounds(vs, w) ==
  IF Len(vs) = 65 THEN vs[65]
  ELSE LET t == Len(vs)
           v == vs[t]
           a == v[1]
           e == v[5]
           S1 == Xor(Xor(Rotr(e, 6), Rotr(e, 11)), Rotr(e, 25))
           ch == Xor(And(e, v[6]), And(Not(e), v[7]))
           t1 == Add(Add(Add(v[8], S1), Add(ch, K[t])), w[t])
           S0 == Xor(Xor(Rotr(a, 2), Rotr(a, 13)), Rotr(a, 22))
           mj == Xor(Xor(And(a, v[2]), And(a, v[3])), And(v[2], v[3]))
           t2 == Add(S0, mj)
       IN  Rounds(Append(vs, << Add(t1, t2), v[1], v[2], v[3],
                                Add(v[4], t1), v[5], v[6], v[7] >>), w)

Compress(h, block) ==
  LET w16 == [j \in 1..16 |->
                << (block[4 * j - 3] * 256) + block[4 * j - 2],
                   (block[4 * j - 1] * 256) + block[4 * j] >>]
      v == Rounds(<< h >>, Schedule(w16))
  IN  [i \in 1..8 |-> Add(h[i], v[i])]

RECURSIVE Blocks(_, _)
Blocks(h, m) ==
  IF Len(m) = 0 THEN h
  ELSE Blocks(Compress(h, SubSeq(m, 1, 64)), SubSeq(m, 65, Len(m)))

sha256(bytes) == Blocks(H0, Pad(bytes))

HexChars ==
  << "0", "1", "2", "3", "4", "5", "6", "7",
     "8", "9", "a", "b", "c", "d", "e", "f" >>

\* the 4 lower-case hex digits of a 16-bit number
Hex4(n) ==
  << HexChars[(n \div 4096) + 1], HexChars[((n \div 256) % 16) + 1],
     HexChars[((n \div 16) % 16) + 1], HexChars[(n % 16) + 1] >>

RECURSIVE HexWords(_)
HexWords(ws) ==
  IF Len(ws) = 0 THEN << >>
  ELSE Hex4(ws[1][1]) \o Hex4(ws[1][2]) \o HexWords(Tail(ws))

\* hashlib's hexdigest(): the 64 lower-case hex digits of the 8 digest words
hexdigest(h) == HexWords(h)

\* str.encode() for the characters an agent address is made of
AddressChars ==
  << "0", "1", "2", "3", "4", "5", "6", "7", "8", "9",
     "a", "b", "c", "d", "e", "f", "g", "h", "i", "j", "k", "l", "m",
     "n", "o", "p", "q", "r", "s", "t", "u", "v", "w", "x", "y", "z" >>

Ord(c) ==
  LET i == CHOOSE j \in 1..Len(AddressChars) : AddressChars[j] = c
  IN  IF i <= 10 THEN 47 + i ELSE 86 + i

encode(s) == [i \in 1..Len(s) |-> Ord(s[i])]

(***************************************************************************)
(* Inputs.                                                                 *)
(***************************************************************************)
\* ctx.session values
Sessions == { "s1", "s2" }

\* sender addresses; sha256("hwl") and sha256("jcy") both start db99bb
Senders == { << "h", "w", "l" >>, << "j", "c", "y" >> }

\* a sender of the length of a real agent address (65 characters, two SHA blocks)
LongSender == << "a", "g", "e", "n", "t", "1", "q" >> \o Rep("q", 58)

AllSenders == Senders \cup { << "a", "b", "c" >>, LongSender }

TextContent(text) == [type |-> "text", text |-> text]
MetadataContent == [type |-> "metadata"]

\* msg.content of the inbound messages
Contents ==
  { \* 19 characters inside white space: 21 before strip()
    << TextContent(<< " " >> \o Rep("a", 19) \o << "\n" >>) >>,
    \* 20 characters over two text items, a non-text item between them
    << TextContent(Rep("a", 10)), MetadataContent, TextContent(Rep("b", 10)) >>,
    \* white space only
    << TextContent(Rep(" ", 25)) >> }

(***************************************************************************)
(* _generate_coupon                                                        *)
(***************************************************************************)
\* hashlib.sha256(sender.encode()).hexdigest()[:6].upper(), for every sender
UserHashes ==
  [s \in AllSenders |-> upper(SubSeq(hexdigest(sha256(encode(s))), 1, 6))]

user_hash(sender) == UserHashes[sender]

DigitChars == << "0", "1", "2", "3", "4", "5", "6", "7", "8", "9" >>

\* %H and %M: two digits, zero padded
TwoDigits(n) == << DigitChars[(n \div 10) + 1], DigitChars[(n % 10) + 1] >>

\* datetime.now(UTC).strftime("%H%M"); the clock counts seconds
hour(t) == (t \div 3600) % 24
minute(t) == (t \div 60) % 60
\* mutant: the format "%H%S"
strftime_HS(t) == TwoDigits(hour(t)) \o TwoDigits(t % 60)

strftime_HM(t) == TwoDigits(hour(t)) \o TwoDigits(minute(t))

generate_coupon(sender, t) ==
  COUPON_PREFIX \o << "-" >> \o CONFERENCE_ID \o << "-" >>
    \o user_hash(sender) \o << "-" >> \o strftime_HM(t)

(***************************************************************************)
(* _evaluate_story.  The text the service returns is a sequence of tokens: *)
(* a code fence, a line break, a blank, a run of prose, or one JSON        *)
(* document (with the Python value json.loads gives for it).               *)
(***************************************************************************)
Fence == [tok |-> "fence"]
NL == [tok |-> "newline"]
SP == [tok |-> "blank"]
Prose(s) == [tok |-> "prose", s |-> s]
Doc(v) == [tok |-> "json", value |-> v]

\* Python values json.loads can give
PyDict(d) == [type |-> "dict", v |-> d]
PyInt(n) == [type |-> "int", v |-> n]
PyStr(s) == [type |-> "str", v |-> s]
PyList(l) == [type |-> "list", v |-> l]

IsBlank(tk) == tk.tok \in { "blank", "newline" }

RECURSIVE tlstrip(_)
tlstrip(s) == IF Len(s) > 0 /\ IsBlank(s[1]) THEN tlstrip(Tail(s)) ELSE s

RECURSIVE trstrip(_)
trstrip(s) ==
  IF Len(s) > 0 /\ IsBlank(s[Len(s)])
  THEN trstrip(SubSeq(s, 1, Len(s) - 1))
  ELSE s

\* raw.strip()
tstrip(s) == trstrip(tlstrip(s))

\* raw.startswith(fence)
startswith_fence(s) == Len(s) > 0 /\ s[1].tok = "fence"

\* raw.split(newline, 1)[-1]: what follows the first line break, or all of raw
after_first_newline(s) ==
  LET at == { i \in 1..Len(s) : s[i].tok = "newline" }
  IN  IF at = {} THEN s
      ELSE SubSeq(s, (CHOOSE i \in at : \A j \in at : i <= j) + 1, Len(s))

\* raw.rsplit(fence, 1)[0]: what precedes the last fence, or all of raw
before_last_fence(s) ==
  LET at == { i \in 1..Len(s) : s[i].tok = "fence" }
  IN  IF at = {} THEN s
      ELSE SubSeq(s, 1, (CHOOSE i \in at : \A j \in at : i >= j) - 1)

\* json.loads(raw) raises unless raw is one JSON document (blanks around it allowed)
json_loads_ok(s) == Len(tstrip(s)) = 1 /\ tstrip(s)[1].tok = "json"
json_loads(s) == tstrip(s)[1].value

\* mutant: the except branch returns None
Fallback_none == [type |-> "NoneType", v |-> << >>]

\* line 123
Fallback == PyDict([score |-> 7, comment |-> "Great story! Thanks for sharing."])

\* what the text-generation service can do to one request (a list: the values
\* are of different Python types)
Responses ==
  << [kind |-> "timeout"],
     [kind |-> "connection_error"],
    [kind |-> "http", status |-> 500, body |-> [kind |-> "html"]],
    [kind |-> "http", status |-> 200, body |-> [kind |-> "html"]],
    [kind |-> "http", status |-> 200,
     body |-> [kind |-> "chat", content |-> << Prose("What a story!") >>]],
    [kind |-> "http", status |-> 200,
     body |-> [kind |-> "chat",
               content |-> << Doc(PyDict([score |-> 9, comment |-> "Yum"])), NL >>]],
    [kind |-> "http", status |-> 200,
     body |-> [kind |-> "chat",
               content |-> << Fence, Prose("json"), NL,
                              Doc(PyDict([score |-> 8, comment |-> "Sweet"])),
                              NL, Fence >>]],
    [kind |-> "http", status |-> 200,
     body |-> [kind |-> "chat",
               content |-> << Doc(PyDict([rating |-> 9])) >>]],
    [kind |-> "http", status |-> 200,
     body |-> [kind |-> "chat",
               content |-> << Doc(PyDict([score |-> 11, comment |-> "Off the chart"])) >>]],
    [kind |-> "http", status |-> 200,
     body |-> [kind |-> "chat", content |-> << Doc(PyInt(7)) >>]],
    [kind |-> "http", status |-> 200,
     body |-> [kind |-> "chat", content |-> << Doc(PyStr("Great story")) >>]],
    [kind |-> "http", status |-> 200,
     body |-> [kind |-> "chat", content |-> << Doc(PyList(<< 7 >>)) >>]] >>

\* requests.post raises (timeout, no connection)
post_raises(resp) == resp.kind # "http"

\* resp.raise_for_status() raises on a 4xx or 5xx status
raise_for_status_raises(resp) == resp.status >= 400 /\ resp.status < 600

\* resp.json()["choices"][0]["message"]["content"] raises
content_raises(resp) == resp.body.kind # "chat"

\* the value _evaluate_story returns for the behaviour resp of the service
evaluate_story(resp) ==
  IF post_raises(resp) THEN Fallback
  ELSE IF raise_for_status_raises(resp) THEN Fallback
  ELSE IF content_raises(resp) THEN Fallback
  ELSE LET raw0 == tstrip(resp.body.content)
           raw == IF startswith_fence(raw0)
                  THEN tstrip(before_last_fence(after_first_newline(raw0)))
                  ELSE raw0
       IN  IF json_loads_ok(raw) THEN json_loads(raw) ELSE Fallback

(***************************************************************************)
(* Messages the handler sends.                                             *)
(***************************************************************************)
\* the four texts handle_message sends
AlreadyText(coupon) == [kind |-> "already_received", coupon |-> coupon]
TooShortText == [kind |-> "too_short", min |-> MIN_STORY_LENGTH]
CouponText(comment, coupon, score) ==
  [kind |-> "coupon", comment |-> comment, coupon |-> coupon, score |-> score]
WELCOME_MESSAGE == [kind |-> "welcome"]

\* mutant: the end-session item is appended whatever end_session is
make_chat_always_end(text, end_session) ==
  [type |-> "chat",
   content |-> << TextContent(text), [type |-> "end-session"] >>]

\* _make_chat (the fresh msg_id and the timestamp are read by nothing here)
make_chat(text, end_session) ==
  [type |-> "chat",
   content |-> << TextContent(text) >>
                 \o (IF end_session THEN << [type |-> "end-session"] >> ELSE << >>)]

ChatAcknowledgement(msg_id) == [type |-> "ack", acknowledged_msg_id |-> msg_id]

(***************************************************************************)
(* State.                                                                  *)
(***************************************************************************)
VARIABLES
  storage,   \* ctx.storage: session key -> stored record
  handlers,  \* one handle_message coroutine per inbound message
  last,      \* the latest message handled: its inputs and what was sent for it
             \* (under SpecCoupon: the calls of _generate_coupon made so far)
  now,       \* the UTC wall clock, in seconds
  issued,    \* per session, the coupons _generate_coupon returned to its handlers
  requests   \* per session, the requests sent to the text-generation service

vars == << storage, handlers, last, now, issued, requests >>

Msgs == 1..MaxMsgs

None == << >>

\* mutant: one key for every session
session_key_shared(session) == << "session_" >>

\* _session_key
session_key(session) == << "session_", session >>

\* ctx.storage.get(key)
storage_get(key) == IF key \in DOMAIN storage THEN storage[key] ELSE None

\* ctx.storage.set(key, value)
storage_set(key, value) ==
  [k \in DOMAIN storage \cup { key } |-> IF k = key THEN value ELSE storage[k]]

\* Python truth of a dict or None
truthy(d) == DOMAIN d # {}

\* lines 144-147: the text items of the message, joined
RECURSIVE join_text(_)
join_text(content) ==
  IF Len(content) = 0 THEN << >>
  ELSE (IF content[1].type = "text" THEN content[1].text ELSE << >>)
         \o join_text(Tail(content))

\* lines 144-149
extract_text(content) == strip(join_text(content))

\* mutant: the state tag is compared with "complete"
is_completed_typo(session_data) ==
  truthy(session_data) /\ Get(session_data, "state", None) = "complete"

\* line 155
is_completed(session_data) ==
  truthy(session_data) /\ Get(session_data, "state", None) = "completed"

\* mutant: a session without a record is taken to await its story
is_awaiting_or_new(session_data) ==
  ~truthy(session_data) \/ Get(session_data, "state", None) = "awaiting_story"

\* line 169
is_awaiting(session_data) ==
  truthy(session_data) /\ Get(session_data, "state", None) = "awaiting_story"

\* mutant: the bound is one too low
too_short_off_by_one(text) == Len(text) < MIN_STORY_LENGTH - 1

\* line 171
too_short(text) == Len(text) < MIN_STORY_LENGTH

\* mutant: the coupon is read under another key
stored_coupon_wrong_key(session_data) == Get(session_data, "code", << "N", "/", "A" >>)

\* line 156
stored_coupon(session_data) == Get(session_data, "coupon", << "N", "/", "A" >>)

\* lines 184-185
score_of(result) == Get(result.v, "score", 7)
comment_of(result) == Get(result.v, "comment", "Nice story!")

\* mutant: the record is stored without its coupon
completed_record_without_coupon(coupon) == [state |-> "completed"]

\* line 193 and line 211: the two records the handler stores
completed_record(coupon) == [state |-> "completed", coupon |-> coupon]
\* mutant: the tag stored for a new conversation is misspelt
awaiting_record_typo == [state |-> "awaiting"]

\* line 211
awaiting_record == [state |-> "awaiting_story"]

\* a coroutine: not started, suspended in the await of its acknowledgement, over
Idle == [pc |-> "idle"]
\* mutant: the coroutine reaches its first await without having sent anything
Acked_without_ack(m) == [pc |-> "acked", out |-> << >>]
Acked(m) == [pc |-> "acked", out |-> << ChatAcknowledgement(m) >>]
Done == [pc |-> "done"]

\* what handling a message of (session, sender, content) came to: the record
\* read at line 152, the behaviour of the text-generation service when it was
\* called (None when it was not), and the chat message sent
Handled(session, sender, content, service, reply) ==
  [session |-> session, sender |-> sender, content |-> content,
   before |-> storage_get(session_key(session)),
   service |-> service, raised |-> FALSE, reply |-> reply]

\* the same when an exception left handle_message: no chat message was sent
HandledRaised(session, sender, content, service) ==
  [session |-> session, sender |-> sender, content |-> content,
   before |-> storage_get(session_key(session)),
   service |-> service, raised |-> TRUE]

Init ==
  /\ storage = << >>
  /\ handlers = [m \in Msgs |-> Idle]
  /\ last = None
  /\ now = 35940
  /\ issued = [s \in Sessions |-> << >>]
  /\ requests = [s \in Sessions |-> 0]

(***************************************************************************)
(* handle_message up to its first await (lines 133-141): the framework     *)
(* starts a coroutine for inbound message m (messages are numbered in the  *)
(* order they arrive), and the coroutine sends the acknowledgement of      *)
(* msg_id m.  The sender, session and content of the message are read      *)
(* again only after the await, and are drawn there.                        *)
(***************************************************************************)
Acknowledge(m) ==
  /\ handlers[m].pc = "idle"
  /\ \A k \in 1..(m - 1) : handlers[k].pc # "idle"
  /\ handlers' = [handlers EXCEPT ![m] = Acked(m)]
  /\ UNCHANGED << storage, last, now, issued, requests >>

(***************************************************************************)
(* Lines 143-166: the session is completed; the stored coupon is sent      *)
(* again.  The await of the last ctx.send is followed by the return only,  *)
(* so the coroutine is over with this step.                                *)
(***************************************************************************)
AlreadyReceived(m, session, sender, content) ==
  LET session_data == storage_get(session_key(session))
  IN  /\ handlers[m].pc = "acked"
      /\ is_completed(session_data)
      /\ handlers' = [handlers EXCEPT ![m] = Done]
      /\ last' = Handled(session, sender, content, None,
                         make_chat(AlreadyText(stored_coupon(session_data)), TRUE))
      /\ UNCHANGED << storage, now, issued, requests >>

(***************************************************************************)
(* Lines 143-179: awaiting a story, and the text is too short.             *)
(***************************************************************************)
StoryTooShort(m, session, sender, content) ==
  LET session_data == storage_get(session_key(session))
  IN  /\ handlers[m].pc = "acked"
      /\ ~is_completed(session_data)
      /\ is_awaiting(session_data)
      /\ too_short(extract_text(content))
      /\ handlers' = [handlers EXCEPT ![m] = Done]
      /\ last' = Handled(session, sender, content, None,
                         make_chat(TooShortText, FALSE))
      /\ UNCHANGED << storage, now, issued, requests >>

(***************************************************************************)
(* Lines 143-208: awaiting a story, and the text is long enough.  The      *)
(* request to the service blocks the event loop (requests.post is not      *)
(* awaited), so reading the record, the request, _generate_coupon and      *)
(* ctx.storage.set are one step.  result.get raises AttributeError when    *)
(* _evaluate_story returned something that is not a dict; the exception    *)
(* leaves handle_message before the coupon is made.                        *)
(***************************************************************************)
Story(m, session, sender, content, resp) ==
  LET session_data == storage_get(session_key(session))
      result == evaluate_story(resp)
      coupon == generate_coupon(sender, now)
  IN  /\ handlers[m].pc = "acked"
      /\ ~is_completed(session_data)
      /\ is_awaiting(session_data)
      /\ ~too_short(extract_text(content))
      /\ requests' = [requests EXCEPT ![session] = @ + 1]
      /\ handlers' = [handlers EXCEPT ![m] = Done]
      /\ IF result.type # "dict"
         THEN /\ last' = HandledRaised(session, sender, content, resp)
              /\ UNCHANGED << storage, issued >>
         ELSE /\ issued' = [issued EXCEPT ![session] = Append(@, coupon)]
              /\ storage' = storage_set(session_key(session), completed_record(coupon))
              /\ last' = Handled(session, sender, content, resp,
                                 make_chat(CouponText(comment_of(result), coupon,
                                                      score_of(result)), TRUE))
      /\ UNCHANGED now

(***************************************************************************)
(* Lines 143-213: no record, or a record in neither state: a new           *)
(* conversation.                                                           *)
(***************************************************************************)
NewConversation(m, session, sender, content) ==
  LET session_data == storage_get(session_key(session))
  IN  /\ handlers[m].pc = "acked"
      /\ ~is_completed(session_data)
      /\ ~is_awaiting(session_data)
      /\ storage' = storage_set(session_key(session), awaiting_record)
      /\ handlers' = [handlers EXCEPT ![m] = Done]
      /\ last' = Handled(session, sender, content, None,
                         make_chat(WELCOME_MESSAGE, FALSE))
      /\ UNCHANGED << now, issued, requests >>

\* handle_message after the await of the acknowledgement (lines 143-213)
handle_message(m, session, sender, content) ==
  \/ AlreadyReceived(m, session, sender, content)
  \/ StoryTooShort(m, session, sender, content)
  \/ \E r \in DOMAIN Responses : Story(m, session, sender, content, Responses[r])
  \/ NewConversation(m, session, sender, content)

(***************************************************************************)
(* Time passes, up to a later one of the instants the clock is read at.    *)
(***************************************************************************)
\* 09:59:00, 09:59:59 and 10:00:00 of one day, 09:59:00 of the next
Instants == { 35940, 35999, 36000, 122340 }

Tick ==
  /\ \E t \in Instants : t > now /\ now' = t
  /\ UNCHANGED << storage, handlers, last, issued, requests >>

Next ==
  \/ \E m \in Msgs : Acknowledge(m)
  \/ \E m \in Msgs, session \in Sessions, sender \in Senders, content \in Contents :
       handle_message(m, session, sender, content)
  \/ Tick

Spec == Init /\ [][Next]_vars

(***************************************************************************)
(* _generate_coupon on its own: calls for any sender at any time of day,   *)
(* with the clock advancing between calls within the minute, to the next   *)
(* minute, or by a day.                                                    *)
(***************************************************************************)
\* the seconds 0 of minutes 0, 9, 10 and 59 of every hour of a day
StartInstants ==
  { (3600 * h) + (60 * mi) : h \in 0..23, mi \in { 0, 9, 10, 59 } }

InitCoupon ==
  /\ storage = << >>
  /\ handlers = [m \in Msgs |-> Idle]
  /\ last = << >>
  /\ now \in StartInstants
  /\ issued = [s \in Sessions |-> << >>]
  /\ requests = [s \in Sessions |-> 0]

CallGenerateCoupon(sender) ==
  /\ Len(last) < MaxCalls
  /\ last' = Append(last, [sender |-> sender, at |-> now,
                           coupon |-> generate_coupon(sender, now)])
  /\ UNCHANGED << storage, handlers, now, issued, requests >>

\* at most once after each call
TickCoupon ==
  /\ Len(last) > 0
  /\ Len(last) < MaxCalls
  /\ last[Len(last)].at = now
  /\ \E d \in { 59, 60, 86400 } : now' = now + d
  /\ UNCHANGED << storage, handlers, last, issued, requests >>

NextCoupon ==
  \/ \E sender \in AllSenders : CallGenerateCoupon(sender)
  \/ TickCoupon

SpecCoupon == InitCoupon /\ [][NextCoupon]_vars

(***************************************************************************)
(* Properties.                                                             *)
(***************************************************************************)
\* a message has been handled
HasLast == DOMAIN last # {}

\* the stored record of a session, read as the claims read it
Absent(rec) == DOMAIN rec = {}
Awaiting(rec) == DOMAIN rec # {} /\ rec.state = "awaiting_story"
Completed(rec) == DOMAIN rec # {} /\ rec.state = "completed"

\* the record of the session of the latest handled message, as it is now
LastRecord == storage_get(session_key(last.session))

\* the text of a chat message, and whether it carries the end-session marker
ReplyText(reply) == reply.content[1].text
HasEndSession(reply) ==
  \E i \in DOMAIN reply.content : reply.content[i].type = "end-session"

\* the length of the text of an inbound message
TextLength(content) == Len(strip(join_text(content)))

\* the service was called and failed: no answer, or an HTTP error status
ServiceCalled(service) == DOMAIN service # {}
ServiceFailed(service) ==
  /\ ServiceCalled(service)
  /\ \/ service.kind \in { "timeout", "connection_error" }
     \/ service.kind = "http" /\ service.status >= 400

\* the fields of a code, split at "-"
RECURSIVE Split(_, _)
Split(s, sep) ==
  IF \A i \in DOMAIN s : s[i] # sep THEN << s >>
  ELSE LET i == CHOOSE j \in DOMAIN s : s[j] = sep /\ \A k \in 1..(j - 1) : s[k] # sep
       IN  << SubSeq(s, 1, i - 1) >> \o Split(SubSeq(s, i + 1, Len(s)), sep)

AllDone == \A m \in Msgs : handlers[m].pc = "done"

\* C1: a message of a completed session is answered with the already-received
\* text carrying exactly the coupon issued at completion (the only one issued to
\* the session), and the stored record is as it was before the message.
C1_IdempotentRequery ==
  HasLast /\ Completed(last.before) =>
    /\ ~last.raised
    /\ ReplyText(last.reply).kind = "already_received"
    /\ ReplyText(last.reply).coupon = last.before.coupon
    /\ issued[last.session] = << last.before.coupon >>
    /\ LastRecord = last.before

\* C1 witness: every message went to one session, the last one handled found it
\* completed and was answered at a later hour-minute than the coupon carries.
C1_Witness ==
  /\ HasLast
  /\ AllDone
  /\ DOMAIN storage = { session_key(last.session) }
  /\ Completed(last.before)
  /\ ~last.raised
  /\ ReplyText(last.reply).kind = "already_received"
  /\ Split(ReplyText(last.reply).coupon, "-")[4] # strftime_HM(now)

\* C2: a completed record holds a non-empty coupon, and no step changes the
\* record of a completed session.
C2_CompletedCouponImmutable ==
  /\ [](\A k \in DOMAIN storage :
          Completed(storage[k]) =>
            "coupon" \in DOMAIN storage[k] /\ Len(storage[k].coupon) > 0)
  /\ [][\A k \in DOMAIN storage :
          Completed(storage[k]) =>
            /\ k \in DOMAIN storage'
            /\ Completed(storage'[k])
            /\ storage'[k].coupon = storage[k].coupon]_vars

\* C2 witness: a day after the start, a message of a session that was already
\* completed has been handled and the record still holds the coupon of the day
\* before, while the other session awaits its story.
C2_Witness ==
  /\ HasLast
  /\ Completed(last.before)
  /\ Completed(LastRecord)
  /\ LastRecord.coupon = last.before.coupon
  /\ now = 122340
  /\ \E s \in Sessions : Awaiting(storage_get(session_key(s)))

\* C3: a message shorter than MIN_STORY_LENGTH in the awaiting state is answered
\* with the retry prompt (no end-session marker), the service is not called, the
\* record stays the awaiting record and no coupon has been issued to the session.
C3_TooShortStaysAwaiting ==
  HasLast /\ Awaiting(last.before) /\ TextLength(last.content) < MIN_STORY_LENGTH =>
    /\ ~last.raised
    /\ ReplyText(last.reply) = TooShortText
    /\ ~HasEndSession(last.reply)
    /\ ~ServiceCalled(last.service)
    /\ LastRecord = last.before
    /\ "coupon" \notin DOMAIN LastRecord
    /\ issued[last.session] = << >>

\* C3 witness: three messages handled, all of one session, none of them sent to
\* the service: a welcome and two too-short messages in a row.
C3_Witness ==
  /\ HasLast
  /\ \A m \in 1..3 : handlers[m].pc = "done"
  /\ handlers[4].pc = "idle"
  /\ DOMAIN storage = { session_key(last.session) }
  /\ requests[last.session] = 0
  /\ Awaiting(last.before)
  /\ ReplyText(last.reply).kind = "too_short"
  /\ Awaiting(LastRecord)

\* C4: when the service call fails on a long enough message in the awaiting
\* state, the session is completed with a coupon stored, issued once and sent, and
\* the reply carries the fallback comment and score 7.
C4_FallbackOnServiceFailure ==
  HasLast /\ Awaiting(last.before) /\ TextLength(last.content) >= MIN_STORY_LENGTH
          /\ ServiceFailed(last.service) =>
    /\ ~last.raised
    /\ Completed(LastRecord)
    /\ Len(LastRecord.coupon) > 0
    /\ issued[last.session] = << LastRecord.coupon >>
    /\ ReplyText(last.reply) =
         CouponText("Great story! Thanks for sharing.", LastRecord.coupon, 7)
    /\ HasEndSession(last.reply)

\* C4 witness: a story handled while the service timed out, coupon sent.
C4_Witness ==
  /\ HasLast
  /\ Awaiting(last.before)
  /\ ServiceCalled(last.service)
  /\ last.service.kind = "timeout"
  /\ ~last.raised
  /\ ReplyText(last.reply).kind = "coupon"
  /\ Completed(LastRecord)

\* C5 (as claimed): whatever the service does, a long enough message in the
\* awaiting state ends with the session completed and a coupon issued.
C5_EvaluationNeverGates ==
  HasLast /\ Awaiting(last.before) /\ TextLength(last.content) >= MIN_STORY_LENGTH =>
    /\ ~last.raised
    /\ Completed(LastRecord)
    /\ Len(issued[last.session]) = 1

\* C6: the first message of a session without a record, whatever its text, is
\* answered with the welcome message (no end-session marker), stores the awaiting
\* record, calls no service and issues no coupon; and a completed session means
\* at least two messages were handled.
C6_FirstMessageWelcome ==
  /\ HasLast /\ Absent(last.before) =>
       /\ ~last.raised
       /\ ReplyText(last.reply) = WELCOME_MESSAGE
       /\ ~HasEndSession(last.reply)
       /\ ~ServiceCalled(last.service)
       /\ LastRecord = [state |-> "awaiting_story"]
       /\ issued[last.session] = << >>
       /\ requests[last.session] = 0
  /\ \A k \in DOMAIN storage :
       Completed(storage[k]) =>
         Cardinality({ m \in Msgs : handlers[m].pc = "done" }) >= 2

\* C6 witness: a session without a record got a message long enough for a story.
C6_Witness ==
  /\ HasLast
  /\ Absent(last.before)
  /\ TextLength(last.content) >= MIN_STORY_LENGTH
  /\ ReplyText(last.reply) = WELCOME_MESSAGE
  /\ Awaiting(LastRecord)

\* C7: a chat reply carries the end-session marker exactly when the session is
\* completed once the message is handled, which is exactly for the coupon reply
\* and the already-received reply; never for the welcome or the retry prompt.
C7_EndSessionIffTerminal ==
  HasLast /\ ~last.raised =>
    /\ HasEndSession(last.reply) <=> Completed(LastRecord)
    /\ HasEndSession(last.reply) <=>
         ReplyText(last.reply).kind \in { "coupon", "already_received" }
    /\ ReplyText(last.reply).kind \in { "welcome", "too_short" } =>
         ~HasEndSession(last.reply)

\* C7 witness: the retry prompt sent without the marker while the other session
\* is completed.
C7_Witness ==
  /\ HasLast
  /\ ~last.raised
  /\ ReplyText(last.reply).kind = "too_short"
  /\ ~HasEndSession(last.reply)
  /\ \E s \in Sessions : s # last.session /\ Completed(storage_get(session_key(s)))

\* C8 (as claimed): two different completed sessions hold different coupons.
C8_CouponsUnique ==
  \A k1 \in DOMAIN storage, k2 \in DOMAIN storage :
    k1 # k2 /\ Completed(storage[k1]) /\ Completed(storage[k2]) =>
      storage[k1].coupon # storage[k2].coupon

\* C9: with the coroutines interleaved at their awaits, _generate_coupon is
\* called at most once for a session, exactly the completed sessions have a
\* coupon issued, and the stored coupon is the one issued.
C9_OneCouponPerSession ==
  \A s \in Sessions :
    LET rec == storage_get(session_key(s))
    IN  /\ Len(issued[s]) <= 1
        /\ Len(issued[s]) = 1 <=> Completed(rec)
        /\ Completed(rec) => rec.coupon = issued[s][1]

\* C9 witness: coroutine 3 has completed the session (the only one with a record)
\* while coroutine 2, started before it, is still suspended in its await.
C9_Witness ==
  /\ HasLast
  /\ handlers[1].pc = "done"
  /\ handlers[2].pc = "acked"
  /\ handlers[3].pc = "done"
  /\ DOMAIN storage = { session_key(last.session) }
  /\ ~last.raised
  /\ ReplyText(last.reply).kind = "coupon"
  /\ issued[last.session] = << LastRecord.coupon >>

UpperHexChars ==
  { "0", "1", "2", "3", "4", "5", "6", "7", "8", "9", "A", "B", "C", "D", "E", "F" }

\* the number a sequence of digit characters writes
RECURSIVE Number(_)
Number(ds) ==
  IF Len(ds) = 0 THEN 0
  ELSE (10 * Number(SubSeq(ds, 1, Len(ds) - 1)))
         + ((CHOOSE d \in 1..10 : DigitChars[d] = ds[Len(ds)]) - 1)

\* C10 (under SpecCoupon): every code is DONUT-TREEHACKS12-HASH6-HHMM with HASH6
\* six upper-case hex digits (those of SHA-256 for the senders whose digest is
\* known) and HHMM the hour and minute of the call; calls of one sender agree on
\* HASH6, calls at one hour-minute agree on HHMM, and calls of one sender within
\* one minute return one code.
C10_CouponForm ==
  \A i \in DOMAIN last :
    LET c == last[i]
        f == Split(c.coupon, "-")
    IN  /\ Len(f) = 4
        /\ f[1] = << "D", "O", "N", "U", "T" >>
        /\ f[2] = << "T", "R", "E", "E", "H", "A", "C", "K", "S", "1", "2" >>
        /\ Len(f[3]) = 6
        /\ \A j \in 1..6 : f[3][j] \in UpperHexChars
        /\ c.sender = << "a", "b", "c" >> => f[3] = << "B", "A", "7", "8", "1", "6" >>
        /\ c.sender = << "h", "w", "l" >> => f[3] = << "D", "B", "9", "9", "B", "B" >>
        /\ Len(f[4]) = 4
        /\ \A j \in 1..4 : \E d \in 1..10 : DigitChars[d] = f[4][j]
        /\ Number(f[4]) = (100 * ((c.at \div 3600) % 24)) + ((c.at \div 60) % 60)
        /\ \A j \in DOMAIN last :
             LET g == Split(last[j].coupon, "-")
             IN  /\ last[j].sender = c.sender => g[3] = f[3]
                 /\ (last[j].at \div 60) % 1440 = (c.at \div 60) % 1440 => g[4] = f[4]
                 /\ last[j].sender = c.sender /\ last[j].at \div 60 = c.at \div 60 =>
                      last[j].coupon = c.coupon

\* C10 witness: two calls of one sender at different seconds of one minute, with
\* one code.
C10_Witness ==
  /\ Len(last) = 2
  /\ last[1].sender = last[2].sender
  /\ last[1].at # last[2].at
  /\ last[1].at \div 60 = last[2].at \div 60
  /\ last[1].coupon = last[2].coupon

\* the record of a session in a given store, and a step that handles a message
RecordIn(store, session) ==
  IF session_key(session) \in DOMAIN store THEN store[session_key(session)] ELSE None
Handles(m) == handlers[m].pc = "acked" /\ handlers'[m].pc = "done"

\* C11: a step that handles a message of one session reads the record stored
\* under that session's key, and leaves the record, the issued coupons and the
\* request count of every other session as they were, whatever other handlers
\* are suspended at the time.
C11_SessionIsolation ==
  [][ \A m \in Msgs : Handles(m) =>
        /\ last'.before = RecordIn(storage, last'.session)
        /\ DOMAIN storage' \subseteq DOMAIN storage \cup { session_key(last'.session) }
        /\ \A s \in Sessions \ { last'.session } :
             /\ RecordIn(storage', s) = RecordIn(storage, s)
             /\ issued'[s] = issued[s]
             /\ requests'[s] = requests[s] ]_vars

\* C11 witness: a message of one session has changed that session's record
\* while the other session was completed and another handler was suspended.
C11_Witness ==
  /\ HasLast
  /\ LastRecord # last.before
  /\ \E s \in Sessions \ { last.session } : Completed(RecordIn(storage, s))
  /\ \E m \in Msgs : handlers[m].pc = "acked"

\* C12 (as claimed): the score shown in a coupon reply is an integer from 1 to
\* 10, whatever the text-generation service answered.
C12_ScoreInRange ==
  HasLast /\ ~last.raised /\ ReplyText(last.reply).kind = "coupon" =>
    ReplyText(last.reply).score \in 1..10

\* C13: every stored record carries the tag "awaiting_story" or "completed", and
\* in every step the record of each session stays as it is or moves one step
\* forward: absent to awaiting, awaiting to completed; a completed session stays
\* completed, and no session goes from absent to completed in one step.
C13_StateMovesForward ==
  /\ [](\A k \in DOMAIN storage : storage[k].state \in { "awaiting_story", "completed" })
  /\ [][ \A s \in Sessions :
           LET old == RecordIn(storage, s)
               new == RecordIn(storage', s)
           IN  /\ Absent(old) => Absent(new) \/ Awaiting(new)
               /\ Awaiting(old) => Awaiting(new) \/ Completed(new)
               /\ Completed(old) => Completed(new) ]_vars

\* C13 witness: both sessions have gone from absent through awaiting to
\* completed, the second one a minute or more after the first.
C13_Witness ==
  /\ HasLast
  /\ Awaiting(last.before)
  /\ \A s \in Sessions : Completed(RecordIn(storage, s))
  /\ \A s \in Sessions : requests[s] = 1
  /\ now >= 36000

\* C14 (as claimed): a step that handles a message sends exactly one request to
\* the text-generation service when the session was awaiting and the text is
\* long enough, and none otherwise (a new session, a text too short, a
\* completed session); and no session makes more than one request in all.
C14_ServiceCalledOnlyForStory ==
  /\ [](\A s \in Sessions : requests[s] <= 1)
  /\ [][ \A m \in Msgs : Handles(m) =>
           LET story == /\ Awaiting(last'.before)
                        /\ TextLength(last'.content) >= MIN_STORY_LENGTH
           IN  /\ ServiceCalled(last'.service) <=> story
               /\ requests'[last'.session] =
                    requests[last'.session] + (IF story THEN 1 ELSE 0)
               /\ \A s \in Sessions \ { last'.session } : requests'[s] = requests[s] ]_vars

\* C15 (as claimed), in the form a finite run refutes: once the handler of a
\* message is over, exactly one chat reply has been sent for the message (the
\* welcome, the retry prompt, the coupon reply or the already-received reply),
\* whatever the text-generation service did; and when the session was awaiting
\* and the text long enough, the session is completed.
C15_EveryMessageAnswered ==
  (HasLast /\ \E m \in Msgs : handlers[m].pc = "done") =>
    /\ "reply" \in DOMAIN last
    /\ ReplyText(last.reply).kind \in { "welcome", "too_short", "coupon", "already_received" }
    /\ (Awaiting(last.before) /\ TextLength(last.content) >= MIN_STORY_LENGTH
          => Completed(LastRecord))

\* C16: the first step of the handler of message m sends one acknowledgement,
\* carrying msg_id m, and neither reads nor writes the session record nor sends
\* a chat message; the step that reads the record and sends the chat reply comes
\* only after it, finds exactly that one acknowledgement sent, sends no second
\* one, and ends the handler.
C16_AckBeforeReadAndReply ==
  [][ \A m \in Msgs :
        /\ (handlers[m].pc = "idle" /\ handlers'[m] # handlers[m]) =>
             /\ handlers'[m].pc = "acked"
             /\ handlers'[m].out = << ChatAcknowledgement(m) >>
             /\ storage' = storage
             /\ last' = last
        /\ (handlers[m].pc # "done" /\ handlers'[m].pc = "done") =>
             /\ handlers[m].pc = "acked"
             /\ handlers[m].out = << ChatAcknowledgement(m) >>
             /\ last'.before = RecordIn(storage, last'.session)
             /\ "reply" \in DOMAIN last' => last'.reply.type = "chat"
        /\ handlers[m].pc = "done" => handlers'[m] = handlers[m] ]_vars

\* C16 witness: a message has been acknowledged and not yet handled, while one
\* session is completed and has been asked again, and the other has no record.
C16_Witness ==
  /\ HasLast
  /\ Completed(last.before)
  /\ \E s \in Sessions : Absent(RecordIn(storage, s))
  /\ \E m \in Msgs : /\ handlers[m].pc = "acked"
                     /\ handlers[m].out = << ChatAcknowledgement(m) >>

\* C17 (as claimed): a message handled in the awaiting state completes the
\* session and has a coupon issued exactly when its text (the text items
\* joined, then stripped) has at least MIN_STORY_LENGTH characters.
C17_AcceptedIffLongEnough ==
  HasLast /\ Awaiting(last.before) =>
    ((Completed(LastRecord) /\ Len(issued[last.session]) = 1)
       <=> TextLength(last.content) >= MIN_STORY_LENGTH)

====
